---- MODULE Spec2Model ----
(***************************************************************************)
(* download_tces.py: the catalog loader, the per-item fetcher with its     *)
(* retry loop, the worker pool (imap_unordered), the result sink with its  *)
(* batched commits, and main()'s try/except/finally, as one state machine. *)
(*                                                                         *)
(* The SQLite file is `store` (what is committed) and `txn` (what the open *)
(* connection sees, uncommitted statements included).  The remote archive  *)
(* and the catalog file are the environment: `remote` gives, per search    *)
(* target, the outcomes a search or a download may have, `catalogs` the    *)
(* files a run may find on disk.                                           *)
(***************************************************************************)
EXTENDS Integers, Sequences, FiniteSets, Bags, TLC

\* ------------------------------------------------------------- constants

\* download_tces.py:22
MAX_WORKERS == 8
\* download_tces.py:41, the default of download_tess_data's parameter
max_retries == 3
\* download_tces.py:126, the modulus of the batch commit
CommitEvery == 100

\* ---------------------------------------------------------------- bounds

\* runs of main() against the same database file
MaxRuns == 2
\* results waiting in the pool's completion queue
MaxQueue == 2
\* rows with a successful fetch in the large catalog (the scenario of 250)
BigRows == 250

\* ------------------------------------------------------------ the values

None == "None"
\* the None a worker returns, where a result is a tuple otherwise
Absent == <<>>
NaN == "NaN"
NULL == "NULL"

Paths == {"p1", "p2"}

VARIABLES
    pc,               \* where main() is
    exitPath,         \* how the try block was left
    conn,             \* the name conn: unbound, open, closed
    closes,           \* calls of conn.close() in this run
    file,             \* which tces.csv this run finds (a name of OnDisk)
    store,            \* the database file: committed contents
    txn,              \* the connection's view: store plus uncommitted statements
    tasks,            \* the work list
    next,             \* tasks handed to workers so far
    running,          \* the bag of download_tess_data calls in progress
    queue,            \* worker returns not yet seen by the for loop
    consumed,         \* iterations of the for loop so far
    processed_count,
    commits,          \* processed_count at each commit of lines 127 and 132
    runs,             \* runs started
    remote,           \* environment: what the archive can answer per target
    catalogs,         \* environment: the names of the files run r may find
    last,             \* history: path of the latest upsert per key
    dirty,            \* history: keys upserted since the last commit
    lost,             \* history: keys whose latest upsert was discarded
    seen              \* history: the targets of the results the loop has seen

vars == <<pc, exitPath, conn, closes, file, store, txn, tasks, next, running,
          queue, consumed, processed_count, commits, runs, remote, catalogs,
          last, dirty, lost, seen>>

\* --------------------------------------------------------- catalog file

CsvRow(t, s) == [tic_id |-> t, Sectors |-> s]

CsvFile(rows) == [exists |-> TRUE, columns |-> {"tic_id", "Sectors"}, rows |-> rows]

MissingFile == [exists |-> FALSE, columns |-> {}, rows |-> <<>>]

\* a readable file without the Sectors column
NoSectorsFile ==
    [exists |-> TRUE, columns |-> {"tic_id"}, rows |-> <<[tic_id |-> "100"]>>]

\* the catalogs a run may find, by name; "big" has one row without sectors
\* and BigRows rows of one target
OnDisk(name) ==
    CASE name = "missing" -> MissingFile
      [] name = "nosectors" -> NoSectorsFile
      [] name = "empty" -> CsvFile(<<>>)
      [] name = "one" -> CsvFile(<<CsvRow("100", "1,2")>>)
      [] name = "twice" -> CsvFile(<<CsvRow("100", "1,2"), CsvRow("100", "1,2")>>)
      [] name = "scenario" ->
           CsvFile(<<CsvRow("100", "1,2"), CsvRow("200", ""), CsvRow("300", "5")>>)
      [] name = "failing" -> CsvFile(<<CsvRow("300", "5")>>)
      [] name = "big" ->
           CsvFile(<<CsvRow("200", "")>> \o [i \in 1..BigRows |-> CsvRow("100", "1,2")])

\* pandas reads an empty cell as NaN (a float), never as None
ReadCell(cell) == IF cell = "" THEN NaN ELSE cell

\* pd.read_csv("tces.csv"): the frame, for a file that exists
read_csv(f) ==
    [columns |-> f.columns,
     rows |-> [i \in 1..Len(f.rows) |->
                 [c \in f.columns |-> ReadCell(f.rows[i][c])]]]

\* lines 95-96: every column but Sectors
Features(df) ==
    [i \in 1..Len(df.rows) |->
       [c \in df.columns \ {"Sectors"} |-> df.rows[i][c]]]

\* get_exo_tic_sectors(): any exception gives []
get_exo_tic_sectors(f, readOk) ==
    IF readOk /\ f.exists /\ {"tic_id", "Sectors"} \subseteq f.columns
    THEN LET df == read_csv(f)
         IN [i \in 1..Len(df.rows) |-> <<df.rows[i].tic_id, df.rows[i].Sectors>>]
    ELSE <<>>

\* line 106
IsKept(t) == t[2] # None

BuildTasks(test_exo) == SelectSeq(test_exo, IsKept)

\* ------------------------------------------------------------- database

\* a new database file: no table
EmptyDb == [tables |-> {}, LightCurves |-> {}, seq |-> 0, TOIs |-> <<>>]

\* sqlite3 binds a float NaN as NULL
SqlBind(v) == IF v = NaN THEN NULL ELSE v

\* UNIQUE(TIC, sector): NULLs never conflict
Conflicts(r, tic, sector) ==
    /\ tic # NULL /\ sector # NULL
    /\ r.TIC = tic /\ r.sector = sector

\* lines 82-90
CreateIfNotExists(db) == [db EXCEPT !.tables = @ \cup {"LightCurves"}]

ReplaceTOIsAppends(db, rows) ==
    [db EXCEPT !.tables = @ \cup {"TOIs"}, !.TOIs = @ \o rows]

\* line 97, if_exists='replace'
ReplaceTOIs(db, rows) == [db EXCEPT !.tables = @ \cup {"TOIs"}, !.TOIs = rows]

UpsertAlwaysInserts(db, tic, sector, file_path) ==
    [db EXCEPT !.LightCurves = @ \cup {[id |-> db.seq + 1, TIC |-> SqlBind(tic),
                                        sector |-> SqlBind(sector),
                                        path_to_fits |-> file_path]},
               !.seq = @ + 1]

UpsertKeepsOldPath(db, tic, sector, file_path) ==
    LET t == SqlBind(tic)
        s == SqlBind(sector)
        hit == {r \in db.LightCurves : Conflicts(r, t, s)}
    IN  IF hit # {}
        THEN [db EXCEPT !.seq = @ + 1]
        ELSE [db EXCEPT !.LightCurves = @ \cup {[id |-> db.seq + 1, TIC |-> t,
                                                 sector |-> s,
                                                 path_to_fits |-> file_path]},
                        !.seq = @ + 1]

UpsertReplacesRow(db, tic, sector, file_path) ==
    LET t == SqlBind(tic)
        s == SqlBind(sector)
        hit == {r \in db.LightCurves : Conflicts(r, t, s)}
    IN  [db EXCEPT !.LightCurves = (@ \ hit) \cup {[id |-> db.seq + 1, TIC |-> t,
                                                    sector |-> s,
                                                    path_to_fits |-> file_path]},
                   !.seq = @ + 1]

\* lines 119-122: INSERT ... ON CONFLICT(TIC, sector) DO UPDATE SET path_to_fits.
\* An AUTOINCREMENT table takes a new sequence value for the statement even
\* when the conflict turns it into an update.
Upsert(db, tic, sector, file_path) ==
    LET t == SqlBind(tic)
        s == SqlBind(sector)
        hit == {r \in db.LightCurves : Conflicts(r, t, s)}
    IN  IF hit # {}
        THEN [db EXCEPT !.LightCurves =
                           {IF r \in hit THEN [r EXCEPT !.path_to_fits = file_path]
                                         ELSE r : r \in @},
                        !.seq = @ + 1]
        ELSE [db EXCEPT !.LightCurves = @ \cup {[id |-> db.seq + 1, TIC |-> t,
                                                 sector |-> s,
                                                 path_to_fits |-> file_path]},
                        !.seq = @ + 1]

\* ------------------------------------------------------------- fetcher

\* one call of download_tess_data: the loop variable, where the attempt is,
\* the seconds slept so far, the transient failures caught so far, and
\* whether this attempt's search had matches
NewCall(task) ==
    [tic |-> task[1], sector |-> task[2], attempt |-> 0, phase |-> "search",
     slept |-> 0, transients |-> 0, found |-> FALSE]

sleep_timeFlat(attempt) == 3

\* line 54
sleep_time(attempt) == 3 * (attempt + 1)

\* line 53
MayRetry(attempt) == attempt < max_retries - 1

Target(c) == <<c.tic, c.sector>>

One(c) == SetToBag({c})

\* the worker's return value reaches the completion queue; `call` keeps the
\* state in which the call ended and `log` the message it logged last
ReturnLosesFailure(c, d, value, logged) ==
    /\ Len(queue) < MaxQueue
    /\ running' = running (-) One(c)
    /\ queue' = IF value = Absent /\ logged # "nodata" THEN queue
                ELSE Append(queue, [value |-> value, log |-> logged, call |-> d])

Return(c, d, value, logged) ==
    /\ Len(queue) < MaxQueue
    /\ running' = running (-) One(c)
    /\ queue' = Append(queue, [value |-> value, log |-> logged, call |-> d])

Continue(c, d) == /\ running' = (running (-) One(c)) (+) One(d)
                  /\ queue' = queue

NextAttemptOnceMore(c, d) ==
    IF d.attempt < max_retries
    THEN Continue(c, [d EXCEPT !.attempt = @ + 1, !.phase = "search",
                               !.found = FALSE])
    ELSE Return(c, d, Absent, "exhausted")

NextAttemptRestarts(c, d) == Continue(c, NewCall(Target(d)))

\* line 42 after a failed attempt: the next attempt, or lines 59-60
NextAttempt(c, d) ==
    IF d.attempt + 1 < max_retries
    THEN Continue(c, [d EXCEPT !.attempt = @ + 1, !.phase = "search",
                               !.found = FALSE])
    ELSE Return(c, d, Absent, "exhausted")

\* lines 51-55: the call sleeps before the next attempt, or goes on at once
OnTransient(c) ==
    LET d == [c EXCEPT !.transients = @ + 1]
    IN  IF MayRetry(c.attempt)
        THEN Continue(c, [d EXCEPT !.phase = "sleep",
                                   !.slept = @ + sleep_time(c.attempt)])
        ELSE NextAttempt(c, d)

OnPermanentGoesOn(c) == NextAttempt(c, c)

\* lines 56-58
OnPermanent(c) == Return(c, c, Absent, "permanent")

OnNoDataDownloads(c) == Continue(c, [c EXCEPT !.phase = "download"])

\* lines 45-47
OnNoData(c) == Return(c, c, Absent, "nodata")

\* lines 45 and 48: the search has matches, the download is issued
OnFound(c) == Continue(c, [c EXCEPT !.phase = "download", !.found = TRUE])

\* lines 48-50 and the worker's lines 67-69
OnDownloaded(c, p) == Return(c, c, <<c.tic, c.sector, p>>, "downloaded")

\* lines 67-73: download_tess_data returned, but the worker cannot name the
\* file (lc is None, or lc.filename raises): logged, the result is None
OnUnusable(c) == Return(c, c, Absent, "worker")

\* ------------------------------------------------------------ the pool

PoolVars == <<tasks, next, running, queue, consumed, processed_count, commits>>
EnvVars == <<remote, catalogs>>
HistVars == <<last, dirty, lost, seen>>
MainVars == <<pc, exitPath, conn, closes, file, runs>>

HasIdleWorkerAlways(r) == TRUE

\* line 111: the pool has MAX_WORKERS processes, each runs one call at a time
HasIdleWorker(r) == BagCardinality(r) < MAX_WORKERS

NextTaskFirst(ts, n) == ts[1]

\* line 116: imap_unordered hands the tasks out in the order of the list
NextTask(ts, n) == ts[n + 1]

\* line 116: an idle worker takes the next task and calls download_tess_data
Dispatch ==
    /\ pc = "sink"
    /\ next < Len(tasks)
    /\ HasIdleWorker(running)
    /\ running' = running (+) One(NewCall(NextTask(tasks, next)))
    /\ next' = next + 1
    /\ UNCHANGED <<tasks, queue, consumed, processed_count, commits, store, txn>>
    /\ UNCHANGED <<MainVars, EnvVars, HistVars>>

\* line 44 and what follows from its outcome
Search ==
    /\ pc = "sink"
    /\ \E c \in BagToSet(running) :
         /\ c.phase = "search"
         /\ \E o \in remote[Target(c)].search :
              CASE o = "found" -> OnFound(c)
                [] o = "nodata" -> OnNoData(c)
                [] o = "transient" -> OnTransient(c)
                [] o = "permanent" -> OnPermanent(c)
    /\ UNCHANGED <<tasks, next, consumed, processed_count, commits, store, txn>>
    /\ UNCHANGED <<MainVars, EnvVars, HistVars>>

DownloadAndInsert ==
    /\ pc = "sink"
    /\ \E c \in BagToSet(running) :
         /\ c.phase = "download"
         /\ \E p \in remote[Target(c)].paths :
              /\ OnDownloaded(c, p)
              /\ txn' = Upsert(txn, c.tic, c.sector, p)
    /\ UNCHANGED <<tasks, next, consumed, processed_count, commits, store>>
    /\ UNCHANGED <<MainVars, EnvVars, HistVars>>

\* line 48 and what follows from its outcome
Download ==
    /\ pc = "sink"
    /\ \E c \in BagToSet(running) :
         /\ c.phase = "download"
         /\ \E o \in remote[Target(c)].download :
              CASE o = "ok" -> \E p \in remote[Target(c)].paths : OnDownloaded(c, p)
                [] o = "unusable" -> OnUnusable(c)
                [] o = "transient" -> OnTransient(c)
                [] o = "permanent" -> OnPermanent(c)
    /\ UNCHANGED <<tasks, next, consumed, processed_count, commits, store, txn>>
    /\ UNCHANGED <<MainVars, EnvVars, HistVars>>

\* line 55 returns
Wake ==
    /\ pc = "sink"
    /\ \E c \in BagToSet(running) :
         /\ c.phase = "sleep"
         /\ NextAttempt(c, c)
    /\ UNCHANGED <<tasks, next, consumed, processed_count, commits, store, txn>>
    /\ UNCHANGED <<MainVars, EnvVars, HistVars>>

\* ------------------------------------------------------------ main()

CommitDueEarly(n) == (n + 1) % CommitEvery = 0

\* line 126
CommitDue(n) == n % CommitEvery = 0

\* lines 78-79
Connect ==
    /\ pc = "start"
    /\ conn' = "open"
    /\ txn' = store
    /\ pc' = "create"
    /\ UNCHANGED <<exitPath, closes, file, runs, store>>
    /\ UNCHANGED <<PoolVars, EnvVars, HistVars>>

\* lines 82-91
CreateTable ==
    /\ pc = "create"
    /\ txn' = CreateIfNotExists(txn)
    /\ store' = txn'
    /\ pc' = "meta"
    /\ UNCHANGED <<exitPath, conn, closes, file, runs>>
    /\ UNCHANGED <<PoolVars, EnvVars, HistVars>>

\* lines 94-97; to_sql commits its own transaction
LoadMeta ==
    /\ pc = "meta"
    /\ IF OnDisk(file).exists
       THEN /\ txn' = ReplaceTOIs(txn, Features(read_csv(OnDisk(file))))
            /\ store' = txn'
            /\ pc' = "load"
            /\ UNCHANGED exitPath
       ELSE /\ exitPath' = "FileNotFoundError"
            /\ pc' = "finally"
            /\ UNCHANGED <<store, txn>>
    /\ UNCHANGED <<conn, closes, file, runs>>
    /\ UNCHANGED <<PoolVars, EnvVars, HistVars>>

\* lines 100-106; the second read of the file may fail on its own
LoadTasks ==
    /\ pc = "load"
    /\ \E readOk \in BOOLEAN :
         tasks' = BuildTasks(get_exo_tic_sectors(OnDisk(file), readOk))
    /\ pc' = "pool"
    /\ UNCHANGED <<exitPath, conn, closes, file, runs, store, txn>>
    /\ UNCHANGED <<next, running, queue, consumed, processed_count, commits>>
    /\ UNCHANGED <<EnvVars, HistVars>>

\* lines 111-113
OpenPool ==
    /\ pc = "pool"
    /\ processed_count' = 0
    /\ pc' = "sink"
    /\ UNCHANGED <<exitPath, conn, closes, file, runs, store, txn>>
    /\ UNCHANGED <<tasks, next, running, queue, consumed, commits>>
    /\ UNCHANGED <<EnvVars, HistVars>>

WriteRecordsAbsent(db, result) ==
    IF result # Absent THEN Upsert(db, result[1], result[2], result[3])
    ELSE Upsert(db, NaN, NaN, NaN)

\* lines 117-122: a result that is not None is upserted, None writes nothing
Write(db, result) ==
    IF result # Absent THEN Upsert(db, result[1], result[2], result[3])
    ELSE db

\* lines 116-129: one iteration of the for loop
Consume ==
    /\ pc = "sink"
    /\ queue # <<>>
    /\ LET result == Head(queue).value
       IN  IF result # Absent
           THEN LET tic == result[1]
                    sector == result[2]
                    file_path == result[3]
                    key == <<tic, sector>>
                    db == Write(txn, result)
                    n == processed_count + 1
                IN  /\ processed_count' = n
                    /\ txn' = db
                    /\ last' = [last EXCEPT ![key] = file_path]
                    /\ lost' = lost \ {key}
                    /\ IF CommitDue(n)
                       THEN /\ store' = db
                            /\ commits' = Append(commits, n)
                            /\ dirty' = {}
                       ELSE /\ dirty' = dirty \cup {key}
                            /\ UNCHANGED <<store, commits>>
           ELSE /\ txn' = Write(txn, result)
                /\ UNCHANGED <<processed_count, store, commits, last, dirty, lost>>
    /\ seen' = seen (+) One(Target(Head(queue).call))
    /\ queue' = Tail(queue)
    /\ consumed' = consumed + 1
    /\ UNCHANGED <<tasks, next, running>>
    /\ UNCHANGED <<MainVars, EnvVars>>

\* lines 131-133: the loop has seen one result per task
FinalCommit ==
    /\ pc = "sink"
    /\ consumed = Len(tasks)
    /\ store' = txn
    /\ commits' = Append(commits, processed_count)
    /\ dirty' = {}
    /\ exitPath' = "normal"
    /\ pc' = "finally"
    /\ UNCHANGED <<conn, closes, file, runs, txn, last, lost, seen>>
    /\ UNCHANGED <<tasks, next, running, queue, consumed, processed_count>>
    /\ UNCHANGED EnvVars

BodyPcs == {"start", "create", "meta", "load", "pool", "sink"}

\* lines 135-138: KeyboardInterrupt or another exception leaves the try block;
\* leaving the with block terminates the pool
Raise ==
    /\ pc \in BodyPcs
    /\ \E how \in {"KeyboardInterrupt", "Exception"} : exitPath' = how
    /\ pc' = "finally"
    /\ running' = EmptyBag
    /\ queue' = <<>>
    /\ UNCHANGED <<conn, closes, file, runs, store, txn>>
    /\ UNCHANGED <<tasks, next, consumed, processed_count, commits>>
    /\ UNCHANGED <<EnvVars, HistVars>>

CloseCommits(committed, pending) == pending

CloseDropsRows(committed, pending) == [committed EXCEPT !.LightCurves = {}]

\* line 140: what the file holds once the connection is closed with
\* statements pending: they are not committed
AfterClose(committed, pending) == committed

\* lines 139-140: closing discards what was not committed; with conn never
\* bound the statement raises UnboundLocalError out of main()
Close ==
    /\ pc = "finally"
    /\ IF conn = "unbound"
       THEN /\ pc' = "crashed"
            /\ UNCHANGED <<conn, closes, store, txn, dirty, lost>>
       ELSE /\ conn' = "closed"
            /\ closes' = closes + 1
            /\ store' = AfterClose(store, txn)
            /\ txn' = store'
            /\ lost' = lost \cup dirty
            /\ dirty' = {}
            /\ pc' = "exited"
    /\ UNCHANGED <<exitPath, file, runs, last, seen>>
    /\ UNCHANGED <<PoolVars, EnvVars>>

\* the script is started again on the same database file
StartRun ==
    /\ pc \in {"exited", "crashed"}
    /\ runs < MaxRuns
    /\ runs' = runs + 1
    /\ file' \in catalogs[runs']
    /\ pc' = "start"
    /\ exitPath' = "none"
    /\ conn' = "unbound"
    /\ closes' = 0
    /\ tasks' = <<>>
    /\ next' = 0
    /\ running' = EmptyBag
    /\ queue' = <<>>
    /\ consumed' = 0
    /\ processed_count' = 0
    /\ commits' = <<>>
    /\ seen' = EmptyBag
    /\ UNCHANGED <<store, txn, last, dirty, lost>>
    /\ UNCHANGED EnvVars

Next ==
    \/ Connect \/ CreateTable \/ LoadMeta \/ LoadTasks \/ OpenPool
    \/ Dispatch \/ Search \/ Download \/ Wake
    \/ Consume \/ FinalCommit \/ Raise \/ Close \/ StartRun

\* ------------------------------------------------------ the environment

TaskA == <<"100", "1,2">>

Targets == {"100", "200", "300"} \X {"1,2", "5", NaN}

\* the archive may answer anything
Unreliable ==
    [search |-> {"found", "nodata", "transient", "permanent"},
     download |-> {"ok", "unusable", "transient", "permanent"},
     paths |-> Paths]

\* the archive always has the file
Healthy == [search |-> {"found"}, download |-> {"ok"}, paths |-> {"p1"}]

\* the archive answers at once: it has the file, or not, or refuses
Steady ==
    [search |-> {"found", "nodata", "permanent"}, download |-> {"ok"},
     paths |-> {"p1"}]

\* the archive never delivers the file
Failing ==
    [search |-> {"found", "nodata", "transient", "permanent"},
     download |-> {"transient", "permanent"},
     paths |-> {}]

\* the archive has nothing for the target
NoData == [search |-> {"nodata"}, download |-> {}, paths |-> {}]

SmallFiles == {"missing", "nosectors", "empty", "one", "twice", "scenario"}

InitRun(cats, rem) ==
    /\ catalogs = cats
    /\ remote = rem
    /\ runs = 1
    /\ file \in cats[1]
    /\ pc = "start"
    /\ exitPath = "none"
    /\ conn = "unbound"
    /\ closes = 0
    /\ store = EmptyDb
    /\ txn = EmptyDb
    /\ tasks = <<>>
    /\ next = 0
    /\ running = EmptyBag
    /\ queue = <<>>
    /\ consumed = 0
    /\ processed_count = 0
    /\ commits = <<>>
    /\ last = [k \in Targets |-> None]
    /\ dirty = {}
    /\ lost = {}
    /\ seen = EmptyBag

\* small catalogs; the archive may answer anything for one target, answers
\* at once for the others, and a search for sector NaN matches no observation
Init ==
    InitRun([r \in 1..MaxRuns |-> SmallFiles],
            [k \in Targets |-> IF k[2] = NaN THEN NoData
                               ELSE IF k = TaskA THEN Unreliable
                               ELSE Steady])

Spec == Init /\ [][Next]_vars

\* the steps of runs that nobody interrupts
NextLive ==
    \/ Connect \/ CreateTable \/ LoadMeta \/ LoadTasks \/ OpenPool
    \/ Dispatch \/ Search \/ Download \/ Wake
    \/ Consume \/ FinalCommit \/ Close \/ StartRun

\* runs without interruption in which whatever can run does run: main() and
\* the workers are scheduled, a remote call returns or raises, a sleep ends
SpecLive == Init /\ [][NextLive]_vars /\ WF_vars(NextLive)

\* the large catalog in the last run, after runs in which every fetch failed;
\* the archive has the file of the large catalog's target
InitBatch ==
    InitRun([r \in 1..MaxRuns |-> IF r = MaxRuns THEN {"big"} ELSE {"failing"}],
            [k \in Targets |-> IF k = TaskA THEN Healthy
                               ELSE IF k[2] = NaN THEN NoData
                               ELSE Failing])

SpecBatch == InitBatch /\ [][Next]_vars

\* ---------------------------------------------------------- the claims

Calls == BagToSet(running)

\* the database as a reader sees it: through the open connection, else the file
Visible == IF conn = "open" THEN txn ELSE store

RowsOf(db, k) == {r \in db.LightCurves : r.TIC = k[1] /\ r.sector = k[2]}

PathsOf(db, k) == {r.path_to_fits : r \in RowsOf(db, k)}

UniqueKeys(db) ==
    \A r1, r2 \in db.LightCurves :
        (r1.TIC = r2.TIC /\ r1.sector = r2.sector) => r1 = r2

\* C1: in every reachable state, in the committed file and in the open
\* connection's view alike, no two LightCurves rows have the same
\* (TIC, sector) pair.
TheoremC1 == UniqueKeys(store) /\ UniqueKeys(txn)

\* a second run has upserted the same key twice more and one row is stored
WitnessC1 ==
    /\ runs = 2 /\ file = "twice" /\ pc = "exited" /\ processed_count = 2
    /\ Cardinality(store.LightCurves) = 1
    /\ store.seq >= 3

\* C2 as stated: for every key with a successful result processed by the
\* sink, the single row of the key holds the path of the latest such result.
CounterC2 ==
    \A k \in Targets : last[k] # None => PathsOf(Visible, k) = {last[k]}

\* C2 amended: the same, except for a key whose latest upsert was still
\* uncommitted when its run was interrupted or failed.
TheoremC2 ==
    \A k \in Targets :
        (last[k] # None /\ k \notin lost) =>
            /\ PathsOf(Visible, k) = {last[k]}
            /\ Cardinality(RowsOf(Visible, k)) = 1

\* after a normal run the one row of the key holds the later path p2, and
\* more than one upsert has gone into it
WitnessC2 ==
    /\ pc = "exited" /\ exitPath = "normal"
    /\ last[<<"100", "1,2">>] = "p2"
    /\ PathsOf(store, <<"100", "1,2">>) = {"p2"}
    /\ store.seq >= 2
    /\ Cardinality(store.LightCurves) = 1

\* in a running call every attempt after the first follows a transient
\* failure of the one before
AttemptsFollowTransients ==
    \A c \in Calls :
        c.attempt = IF c.phase = "sleep" THEN c.transients - 1 ELSE c.transients

\* C3: a call makes at most max_retries = 3 attempts, each further attempt
\* follows a transient failure of the previous one, and a call whose 3
\* attempts all failed transiently returns None.
TheoremC3 ==
    /\ \A c \in Calls : c.attempt + 1 <= max_retries
    /\ AttemptsFollowTransients
    /\ \A i \in 1..Len(queue) : LET e == queue[i] IN
          /\ e.call.attempt + 1 <= max_retries
          /\ e.call.transients = max_retries => (e.log = "exhausted" /\ e.value = Absent)
          /\ e.log = "exhausted" => e.call.transients = max_retries

WitnessC3 ==
    \E i \in 1..Len(queue) : LET e == queue[i] IN
        e.log = "exhausted" /\ e.value = Absent /\ e.call.attempt = 2
        /\ e.call.transients = 3

RECURSIVE TotalBackoff(_)
\* 3 * 1 + ... + 3 * n
TotalBackoff(n) == IF n = 0 THEN 0 ELSE 3 * n + TotalBackoff(n - 1)

\* C4: a call that succeeds after N < 3 transient failures returns the
\* result and has slept 3 * 1 + ... + 3 * N seconds; a call sleeps only
\* when another attempt follows, never after the last attempt.
TheoremC4 ==
    /\ \A i \in 1..Len(queue) : LET e == queue[i] IN
          e.log = "downloaded" =>
              /\ e.value # Absent
              /\ e.value[1] = e.call.tic /\ e.value[2] = e.call.sector
              /\ e.call.transients < max_retries
              /\ e.call.slept = TotalBackoff(e.call.transients)
    /\ \A c \in Calls :
          /\ c.phase = "sleep" => c.attempt + 1 < max_retries
          /\ c.slept = TotalBackoff(c.transients)
    /\ \A i \in 1..Len(queue) : LET e == queue[i] IN
          e.call.slept = TotalBackoff(IF e.call.transients < max_retries
                                      THEN e.call.transients
                                      ELSE max_retries - 1)

\* a call returned its file after two transient failures and 3 + 6 seconds
WitnessC4 ==
    \E i \in 1..Len(queue) : LET e == queue[i] IN
        e.log = "downloaded" /\ e.call.transients = 2 /\ e.call.slept = 9
        /\ e.value # Absent

\* C5: a permanent failure ends the call with None and no further attempt;
\* on the first attempt that is one attempt and no sleep.
TheoremC5 ==
    /\ \A i \in 1..Len(queue) : LET e == queue[i] IN
          e.log = "permanent" =>
              /\ e.value = Absent
              /\ e.call.attempt = e.call.transients
              /\ e.call.attempt = 0 => e.call.slept = 0
    /\ \A c \in Calls : c.attempt <= c.transients

WitnessC5 ==
    \E i \in 1..Len(queue) : LET e == queue[i] IN
        e.log = "permanent" /\ e.value = Absent /\ e.call.attempt = 0
        /\ e.call.slept = 0

\* the for loop takes a result that a search without matches produced
TakesNoData ==
    /\ pc = "sink" /\ queue # <<>> /\ Head(queue).log = "nodata"
    /\ consumed' = consumed + 1

\* C6: a search without matches ends the call with None before any download
\* of that attempt, a download is only ever issued after a search with
\* matches, and the sink writes nothing for such a result.
TheoremC6 ==
    /\ [](/\ \A i \in 1..Len(queue) : LET e == queue[i] IN
                e.log = "nodata" =>
                    e.value = Absent /\ e.call.phase = "search" /\ ~e.call.found
          /\ \A c \in Calls : c.phase = "download" => c.found)
    /\ [][TakesNoData => (txn' = txn /\ store' = store /\ pc' = "sink")]_vars

\* a search of a second attempt found nothing: the call returned None from
\* its search, and the connection sees no row
WitnessC6 ==
    /\ pc = "sink" /\ file = "one"
    /\ \E i \in 1..Len(queue) :
          /\ queue[i].log = "nodata" /\ queue[i].value = Absent
          /\ queue[i].call.attempt = 1 /\ queue[i].call.phase = "search"
    /\ txn.LightCurves = {}

\* processed_count at the batch commits of a loop that has counted n
BatchMarks(n) == [i \in 1..(n \div CommitEvery) |-> i * CommitEvery]

\* the for loop takes an absent result
TakesAbsent ==
    /\ pc = "sink" /\ queue # <<>> /\ Head(queue).value = Absent
    /\ consumed' = consumed + 1

\* C7: the sink commits exactly when processed_count reaches a multiple of
\* 100, absent results do not advance the count, and a normal end adds one
\* final commit; for 250 successful results the commits are at 100, 200 and
\* the final one at 250.
TheoremC7 ==
    /\ [](/\ pc = "sink" => commits = BatchMarks(processed_count)
          /\ (pc \in {"finally", "exited"} /\ exitPath = "normal") =>
                commits = BatchMarks(processed_count) \o <<processed_count>>
          /\ (pc = "exited" /\ exitPath = "normal" /\ processed_count = 250) =>
                commits = <<100, 200, 250>>)
    /\ [][TakesAbsent => (processed_count' = processed_count /\ commits' = commits)]_vars

\* 250 successful results and one absent one, the run ended normally
WitnessC7 ==
    /\ pc = "exited" /\ exitPath = "normal"
    /\ processed_count = 250 /\ consumed = 251
    /\ commits = <<100, 200, 250>>

\* C8 as stated: however a run ends, conn.close() has been called exactly once.
CounterC8 == pc \in {"exited", "crashed"} => closes = 1

\* C9: the committed rows change only by a commit of the sink: an interrupt,
\* an exception and the close of the connection leave every committed batch
\* in the file.
TheoremC9 ==
    [][store'.LightCurves # store.LightCurves =>
          (pc = "sink" /\ Len(commits') = Len(commits) + 1 /\ store' = txn')]_vars

\* a run was interrupted after its first batch commit and the batch is stored
WitnessC9 ==
    /\ pc = "exited" /\ exitPath \in {"KeyboardInterrupt", "Exception"}
    /\ commits = <<100>> /\ processed_count > 100
    /\ PathsOf(store, <<"100", "1,2">>) = {"p1"}

\* C10 as stated: with a catalog that cannot be read the run still creates
\* both tables, runs the pipeline on zero items and ends normally.
CounterC10 ==
    (/\ pc = "exited" /\ ~OnDisk(file).exists
     /\ exitPath \notin {"KeyboardInterrupt", "Exception"}) =>
        /\ exitPath = "normal"
        /\ {"LightCurves", "TOIs"} \subseteq store.tables
        /\ tasks = <<>> /\ processed_count = 0

\* the rows of the file whose Sectors cell is filled, as work items, in order
NonNullRows(f) ==
    LET filled == SelectSeq(f.rows, LAMBDA r : r.Sectors # "")
    IN  [i \in 1..Len(filled) |-> <<filled[i].tic_id, filled[i].Sectors>>]

\* C11 as stated: the work list holds one item per catalog row with a
\* sector specification, in catalog order, and none for a row without one;
\* for the catalog (100, "1,2"), (200, nothing), (300, "5") it is
\* (100, "1,2"), (300, "5").
CounterC11 ==
    (pc \in {"pool", "sink"} /\ tasks # <<>>) =>
        /\ tasks = NonNullRows(OnDisk(file))
        /\ file = "scenario" => tasks = << <<"100", "1,2">>, <<"300", "5">> >>

\* what a call that failed logs last
FailLogs == {"exhausted", "permanent", "worker"}

\* a call ends in failure: its result joins the results awaiting the loop
FetchFails ==
    /\ Len(queue') = Len(queue) + 1
    /\ queue'[Len(queue')].log \in FailLogs

\* C12: a fetch that fails (attempts exhausted, permanent error, error in the
\* worker) yields None and nothing else: main() stays in its loop with no
\* exception, the other calls and the results already returned are untouched,
\* no task is lost on the way, and a run that ends normally has seen a result
\* for every task.
TheoremC12 ==
    /\ [](\A i \in 1..Len(queue) :
            queue[i].log \in FailLogs => queue[i].value = Absent)
    /\ [](pc = "sink" =>
            next = consumed + Len(queue) + BagCardinality(running))
    /\ []((pc \in {"finally", "exited"} /\ exitPath = "normal") =>
            consumed = Len(tasks))
    /\ [][FetchFails =>
            /\ pc' = "sink" /\ pc = "sink"
            /\ exitPath' = "none"
            /\ SubSeq(queue', 1, Len(queue)) = queue
            /\ BagCardinality(running') = BagCardinality(running) - 1
            /\ \A c \in BagToSet(running') : BagIn(c, running)
            /\ <<tasks', next', consumed', store', txn'>> =
               <<tasks, next, consumed, store, txn>>]_vars

\* a call has exhausted its attempts, and a call that ended after it
\* delivered its file
WitnessC12 ==
    /\ pc = "sink"
    /\ Len(queue) = 2
    /\ queue[1].log = "exhausted"
    /\ queue[2].log = "downloaded"

\* the loop takes a result that is not None
TakesPresent ==
    /\ pc = "sink"
    /\ queue # <<>>
    /\ Head(queue).value # Absent
    /\ consumed' = consumed + 1

\* C13: the iteration that sees None writes nothing (no row appears, changes
\* or goes, nothing is committed, nothing is counted), raises nothing and
\* leaves the loop at the next result; and while the loop runs the rows of
\* LightCurves change only in an iteration that sees a result that is not
\* None, which leaves a row with that result's key and path.
TheoremC13 ==
    /\ [][TakesAbsent =>
            /\ txn' = txn /\ store' = store
            /\ processed_count' = processed_count /\ commits' = commits
            /\ pc' = "sink" /\ exitPath' = exitPath
            /\ queue' = Tail(queue)]_vars
    /\ [][(pc = "sink" /\ pc' = "sink"
           /\ txn'.LightCurves # txn.LightCurves) =>
            /\ TakesPresent
            /\ LET result == Head(queue).value
               IN  \E r \in txn'.LightCurves :
                     /\ r.TIC = SqlBind(result[1])
                     /\ r.sector = SqlBind(result[2])
                     /\ r.path_to_fits = result[3]]_vars

\* the loop has seen only None so far, the table is empty, and the next
\* result waiting is a file
WitnessC13 ==
    /\ pc = "sink"
    /\ consumed >= 1
    /\ processed_count = 0
    /\ txn.LightCurves = {}
    /\ queue # <<>>
    /\ Head(queue).value # Absent

\* how many of the first n tasks have target k
Dispatched(k, n) == Cardinality({i \in 1..n : tasks[i] = k})

\* how many calls in progress have target k
InProgress(k) == CopiesIn(k, BagOfAll(Target, running))

\* how many results awaiting the loop have target k
Waiting(k) == Cardinality({i \in 1..Len(queue) : Target(queue[i].call) = k})

\* C14: in a run that is not interrupted every task is handed to a worker
\* once and the loop sees one result per task: while the loop runs, each
\* task handed out is in progress, or its result waits, or the loop has seen
\* it, and at the normal end the loop has seen exactly the tasks; results
\* join the waiting ones in the order in which their calls end and the loop
\* takes the oldest, so the order is that of completion, not of the list.
TheoremC14 ==
    /\ [](pc = "sink" =>
            \A k \in Targets :
              Dispatched(k, next) = InProgress(k) + Waiting(k) + CopiesIn(k, seen))
    /\ [](exitPath = "normal" =>
            /\ next = Len(tasks) /\ consumed = Len(tasks)
            /\ \A k \in Targets : CopiesIn(k, seen) = Dispatched(k, Len(tasks)))
    /\ [][Len(queue') > Len(queue) =>
            /\ queue' = Append(queue, queue'[Len(queue')])
            /\ \E c \in BagToSet(running) :
                 /\ Target(c) = Target(queue'[Len(queue')].call)
                 /\ running' = running (-) One(c)]_vars
    /\ [][consumed' = consumed + 1 =>
            /\ queue # <<>>
            /\ queue' = Tail(queue)
            /\ seen' = seen (+) One(Target(Head(queue).call))]_vars

\* the loop has seen the result of the third task while the call for the
\* first task is still in progress
WitnessC14 ==
    /\ pc = "sink"
    /\ file = "scenario"
    /\ consumed = 1
    /\ BagIn(<<"300", "5">>, seen)
    /\ \E c \in BagToSet(running) : Target(c) = TaskA

\* C15: never more than MAX_WORKERS calls of download_tess_data are in
\* progress; a task is handed out only while fewer are, so to a worker whose
\* call has returned, and while the pool runs a call leaves the calls in
\* progress only by returning its result.
TheoremC15 ==
    /\ [](BagCardinality(running) <= MAX_WORKERS)
    /\ [][next' = next + 1 =>
            /\ BagCardinality(running) < MAX_WORKERS
            /\ BagCardinality(running') = BagCardinality(running) + 1]_vars
    /\ [][(pc' = "sink" /\ BagCardinality(running') < BagCardinality(running)) =>
            /\ BagCardinality(running') = BagCardinality(running) - 1
            /\ Len(queue') = Len(queue) + 1]_vars

\* every worker is busy and tasks are waiting
WitnessC15 ==
    /\ pc = "sink"
    /\ BagCardinality(running) = MAX_WORKERS
    /\ next < Len(tasks)
    /\ consumed > MAX_WORKERS

\* a step of a worker process: the calls in progress change while main()
\* is in its loop
WorkerStep == pc = "sink" /\ pc' = "sink" /\ running' # running

\* C16: no step of a worker touches the database, neither the file nor the
\* connection's pending statements, nor the commit bookkeeping; every step
\* that changes the database is a step of main() and leaves the calls in
\* progress as they are.
TheoremC16 ==
    /\ [][WorkerStep =>
            /\ store' = store /\ txn' = txn
            /\ processed_count' = processed_count /\ commits' = commits]_vars
    /\ [][(store' # store \/ txn' # txn) =>
            /\ running' = running
            /\ pc \in {"start", "create", "meta", "sink", "finally"}]_vars

\* a worker has returned a file and the database holds no row yet
WitnessC16 ==
    /\ pc = "sink"
    /\ \E i \in 1..Len(queue) : queue[i].log = "downloaded"
    /\ txn.LightCurves = {}
    /\ store.LightCurves = {}
    /\ BagCardinality(running) >= 1

\* C17: an upsert whose key is already in the table changes the path of
\* that one row and nothing else: the row keeps its id, TIC and sector,
\* every other row stays as it is, and the table has as many rows as before.
TheoremC17 ==
    [][TakesPresent =>
        LET result == Head(queue).value
            hit == RowsOf(txn, <<SqlBind(result[1]), SqlBind(result[2])>>)
        IN  hit # {} =>
              /\ Cardinality(hit) = 1
              /\ Cardinality(txn'.LightCurves) = Cardinality(txn.LightCurves)
              /\ \A r \in txn.LightCurves :
                   IF r \in hit
                   THEN \E q \in txn'.LightCurves :
                          /\ q.id = r.id /\ q.TIC = r.TIC /\ q.sector = r.sector
                          /\ q.path_to_fits = result[3]
                   ELSE r \in txn'.LightCurves]_vars

\* two rows were inserted and a third upsert then gave the first row, still
\* with id 1, another path
WitnessC17 ==
    /\ pc = "sink"
    /\ txn.seq = 3
    /\ Cardinality(txn.LightCurves) = 2
    /\ \E r \in txn.LightCurves :
         /\ r.id = 1 /\ r.TIC = "100" /\ r.sector = "1,2"
         /\ r.path_to_fits = "p2"
    /\ \E r \in txn.LightCurves : r.id = 2
    /\ \E r \in store.LightCurves : r.id = 1 /\ r.path_to_fits = "p1"

\* the catalog file of this run without its Sectors column, row by row
Snapshot ==
    LET f == OnDisk(file)
    IN  [i \in 1..Len(f.rows) |-> [c \in f.columns \ {"Sectors"} |-> f.rows[i][c]]]

\* main() is past line 97 in this run
MetaLoaded == pc \in {"load", "pool", "sink"} \/ next > 0 \/ exitPath = "normal"

\* C18: once a run is past the metadata step, and so before it hands out
\* its first task, the committed TOIs table is this run's catalog: one row
\* per catalog row, in order, with every column but Sectors, and no row of
\* an earlier catalog; a task is handed out only in such a state.
TheoremC18 ==
    /\ [](MetaLoaded =>
            /\ "TOIs" \in store.tables
            /\ store.TOIs = Snapshot
            /\ txn.TOIs = Snapshot
            /\ Len(store.TOIs) = Len(OnDisk(file).rows)
            /\ \A i \in 1..Len(store.TOIs) : "Sectors" \notin DOMAIN store.TOIs[i])
    /\ [][next' > next => (MetaLoaded /\ store.TOIs = Snapshot)]_vars

\* a second run with a one-row catalog hands out its task; the database
\* still has the light curve of a target of the first run's three-row catalog
WitnessC18 ==
    /\ runs = 2
    /\ file = "one"
    /\ next = 1
    /\ RowsOf(store, <<"300", "5">>) # {}
    /\ store.TOIs = <<[tic_id |-> "100"]>>

\* the try block was left by KeyboardInterrupt or another exception
Interrupted == exitPath \in {"KeyboardInterrupt", "Exception"}

\* the upserts of this run that the connection has not committed
Pending == txn.seq - store.seq

AllCommitted ==
    \A k \in Targets :
        last[k] # None => (RowsOf(store, k) # {} /\ PathsOf(store, k) = {last[k]})

\* C20: without interruption, and with remote calls that return or raise,
\* the calls in progress all end and every run started reaches the closed
\* connection; a run closes its connection only after the final commit, with
\* nothing pending, and once it is closed the file has a row with the latest
\* path for every key fetched with success.
TheoremC20 ==
    /\ (running # EmptyBag) ~> (running = EmptyBag)
    /\ (pc = "start") ~> (pc = "exited" /\ conn = "closed")
    /\ [](\A c \in BagToSet(running) : c.attempt < max_retries)
    /\ [][(conn' = "closed" /\ conn = "open" /\ exitPath = "normal") =>
            /\ commits # <<>>
            /\ commits[Len(commits)] = processed_count
            /\ txn = store
            /\ dirty = {}
            /\ consumed = Len(tasks)]_vars
    /\ []((pc = "exited" /\ exitPath = "normal") => (AllCommitted /\ lost = {}))

\* a run over the three-row catalog has ended normally with the connection
\* closed and two light curves in the file
WitnessC20 ==
    /\ pc = "exited"
    /\ conn = "closed"
    /\ exitPath = "normal"
    /\ file = "scenario"
    /\ processed_count = 2
    /\ commits = <<2>>
    /\ Cardinality(store.LightCurves) = 2

====
